---- MODULE Spec2Model ----
(***************************************************************************)
(* Model of the verified-chain backend (src/backend.js).                   *)
(*                                                                         *)
(* src/backend.js holds three versions of the server.  The pipeline model  *)
(* (Spec) is the first one, lines 1-144: GET /verified-chain runs          *)
(* proof() and then verifyProof() and answers.  The relayer model          *)
(* (RelaySpec) is relaySetHello of the second version, lines 194-218,      *)
(* the only place where the program itself acquires a nonce.               *)
(*                                                                         *)
(* One action is one turn of the Node event loop: the callback of an I/O   *)
(* event together with every synchronous statement and every microtask     *)
(* that follows it, up to the next I/O the handler waits for.              *)
(***************************************************************************)
EXTENDS Integers, Sequences, FiniteSets, TLC

\* ------------------------------------------------------------------ bounds
NumRequests == 2
NumRelays == 2
MaxPreloaded == 1
MaxArtifactLen == 2

Requests == 1..NumRequests
Relays == 1..NumRelays

\* The proof file (raw bytes) the prover writes for request r.  The prover
\* blinds every proof with fresh randomness: no two invocations write the
\* same bytes.  (Files that are not UTF-8 text are the matter of HashSpec.)
Proof(r) == <<64 + r>>

\* Proof files the external prover can leave behind.
Artifacts == { Proof(r) : r \in Requests }

\* Bytes a proof file is made of in the hasher model: "A", the two bytes
\* of U+00A9, and 0xFE and 0xFF, which occur in no UTF-8 text.
Bytes == { 65, 194, 169, 254, 255 }
Slots == { 1, 2 }

\* The query of the request in the comment of src/backend.js:131.
Hellos == { "hola" }
HelloSetters == { "0x18747BE67c5886881075136eb678cEADaf808028" }

\* ------------------------------------------------------- utils/hashMessaje
\* Buffer.prototype.toString(): UTF-8 decoding of raw bytes into code
\* points.  One- and two-byte sequences are decoded; any other byte is
\* replaced by U+FFFD.  (Exact for bytes outside 0xE0..0xF4.)
RECURSIVE Utf8Decode(_)
Utf8Decode(bytes) ==
    IF bytes = <<>> THEN <<>>
    ELSE IF Head(bytes) < 128
         THEN <<Head(bytes)>> \o Utf8Decode(Tail(bytes))
    ELSE IF /\ Head(bytes) \in 194..223
            /\ Len(bytes) >= 2
            /\ bytes[2] \in 128..191
         THEN <<(Head(bytes) - 192) * 64 + (bytes[2] - 128)>>
                  \o Utf8Decode(Tail(Tail(bytes)))
    ELSE <<65533>> \o Utf8Decode(Tail(bytes))

\* utf8ToBytes(message): UTF-8 encoding of a string of code points.
RECURSIVE utf8ToBytes(_)
utf8ToBytes(str) ==
    IF str = <<>> THEN <<>>
    ELSE LET cp == Head(str) IN
         (IF cp < 128 THEN <<cp>>
          ELSE IF cp < 2048 THEN <<192 + (cp \div 64), 128 + (cp % 64)>>
          ELSE <<224 + (cp \div 4096), 128 + ((cp \div 64) % 64),
                 128 + (cp % 64)>>)
         \o utf8ToBytes(Tail(str))

\* SHA256 of crypto-js, taken as an ideal digest: equal digests exactly for
\* equal inputs.
SHA256(bytes) == [alg |-> "sha256", input |-> bytes]

\* hashMessage(message) == `0x${SHA256(utf8ToBytes(message))}`
hashMessage(message) == [prefix |-> "0x", hash |-> SHA256(utf8ToBytes(message))]

\* The value of a variable that has not been assigned a commitment.
NoCommitment == [prefix |-> "", hash |-> SHA256(<<>>)]

\* fs.readFileSync(path).toString()
ReadToString(file) == Utf8Decode(file.bytes)

\* ---------------------------------------------------------------- contract
\* The deployed contract, as the spec assumes it: append-only, zero-indexed,
\* one entry per create_proof, counter = number of entries.
create_proof(es, commitment) == Append(es, commitment)
counter(es) == Len(es)
verify_proof(es, index, commitment) ==
    /\ index >= 0
    /\ index < Len(es)
    /\ es[index + 1] = commitment

\* ------------------------------------------------------------------- state
VARIABLES
    provider,     \* module variable provider: "" until loadContract
    contract,     \* module variable contract: "" until loadContract
    abiRead,      \* has the fs.readFile callback of initAPI run
    pc,           \* per request: the await its handler is suspended at
    query,        \* per request: req.query
    prover,       \* per request: the external ezkl process
    pf,           \* the file ./ezkl/1l_relu.pf
    testTxt,      \* the file test.txt
    own,          \* per request: the proof file its own prover wrote
    readFrom,     \* per request: whose proof file proof() read, 0 if none
    message,      \* per request: message of proof(), given to create_proof
    entries,      \* on-chain: the contract's stored commitments
    txIndex,      \* per request: index its create_proof was recorded at, or -1
    weiCounter,   \* per request: weiCounter of verifyProof(), or -1
    verifyArgs,   \* per request: arguments of its verify_proof call
    verifyResult, \* per request: what verify_proof(...).call() returned
    calls,        \* per request: number of invocations of each collaborator
    errors,       \* per request: the operations that failed
    stages,       \* per request: the pipeline stages entered, in order
    response,     \* per request: the bodies given to res.send, in order
    relayContract,\* second version: module variable contract, or its load
    relayPc,      \* per relaySetHello call: the await it is suspended at
    relayNonce,   \* per relaySetHello call: its local nonce, or -1
    txCount,      \* the node: mined transactions of BACKEND_WALLET_ADDRESS
    broadcast,    \* the node: transactions received, in order
    hasher        \* per slot: a proof file on its way through lines 93-97

pipeVars == <<provider, contract, abiRead, pc, query, prover, pf, testTxt,
              own, readFrom, message, entries, txIndex, weiCounter, verifyArgs,
              verifyResult, calls, errors, stages, response>>
relayVars == <<relayContract, relayPc, relayNonce, txCount, broadcast>>
vars == <<pipeVars, relayVars, hasher>>

Ops == {"exec", "estimateGas", "getGasPrice", "sendTransaction",
        "counter", "verify_proof"}
ChainOps == Ops \ {"exec"}

NoFile == [exists |-> FALSE, by |-> 0, bytes |-> <<>>]
NoQuery == [hello |-> "", helloSetter |-> ""]
NoArgs == [called |-> FALSE, index |-> -1, message |-> NoCommitment,
           readFrom |-> 0]

NoHasher ==
    [x \in Slots |-> [pc |-> "file", bytes |-> <<>>, text |-> <<>>,
                      message |-> NoCommitment]]

\* The state after initAPI() has returned: the read of the ABI is pending
\* and the server listens.  es is what the contract holds at that time,
\* hs the proof files of the hasher model.
Started(es, hs) ==
    /\ provider = ""
    /\ contract = ""
    /\ abiRead = FALSE
    /\ pc = [r \in Requests |-> "idle"]
    /\ query = [r \in Requests |-> NoQuery]
    /\ prover = [r \in Requests |-> "none"]
    /\ pf = NoFile
    /\ testTxt = NoFile
    /\ own = [r \in Requests |-> NoFile]
    /\ readFrom = [r \in Requests |-> 0]
    /\ message = [r \in Requests |-> NoCommitment]
    /\ entries = es
    /\ txIndex = [r \in Requests |-> -1]
    /\ weiCounter = [r \in Requests |-> -1]
    /\ verifyArgs = [r \in Requests |-> NoArgs]
    /\ verifyResult = [r \in Requests |-> "none"]
    /\ calls = [r \in Requests |-> [o \in Ops |-> 0]]
    /\ errors = [r \in Requests |-> {}]
    /\ stages = [r \in Requests |-> <<>>]
    /\ response = [r \in Requests |-> <<>>]
    /\ relayContract = "null"
    /\ relayPc = [h \in Relays |-> "idle"]
    /\ relayNonce = [h \in Relays |-> -1]
    /\ txCount = 0
    /\ broadcast = <<>>
    /\ hasher = hs

Init == Started(<<>>, NoHasher)

\* ------------------------------------------------------------- start-up
\* loadContract(data): provider is assigned, then JSON.parse(data) either
\* throws (contract keeps its placeholder) or contract is assigned.
loadContract(parses) ==
    /\ provider' = "web3"
    /\ contract' = IF parses THEN "contract" ELSE contract

\* The callback of fs.readFile in initAPI.  The server is already
\* listening: app.listen is called before the callback can run.
ReadFileCallback ==
    /\ ~abiRead
    /\ abiRead' = TRUE
    /\ \E outcome \in {"err", "malformed", "ok"} :
          IF outcome = "err"
          THEN UNCHANGED <<provider, contract>>
          ELSE loadContract(outcome = "ok")
    /\ UNCHANGED <<pc, query, prover, pf, testTxt, own, readFrom, message,
                   entries, txIndex, weiCounter, verifyArgs, verifyResult,
                   calls, errors, stages, response, relayVars, hasher>>

\* ------------------------------------------------------------- pipeline
Called(cl, op) == [cl EXCEPT ![op] = @ + 1]

\* res.send({"message": message}) with the message of line 136.
Body(q) == [message |-> <<q.helloSetter, " setted hello to ", " ", q.hello>>]

\* The first statements of relaySetProof and of verifyProof dereference
\* provider.eth and contract.methods: a TypeError while either still holds
\* its placeholder "".
Unbound == provider = "" \/ contract = ""

\* app.get('/verified-chain') up to the await of exec in proof().
Receive(r) ==
    /\ pc[r] = "idle"
    /\ \E h \in Hellos, hs \in HelloSetters :
          query' = [query EXCEPT ![r] = [hello |-> h, helloSetter |-> hs]]
    /\ pc' = [pc EXCEPT ![r] = "exec"]
    /\ prover' = [prover EXCEPT ![r] = "running"]
    /\ calls' = [calls EXCEPT ![r] = Called(@, "exec")]
    /\ stages' = [stages EXCEPT ![r] = Append(@, "Proving")]
    /\ UNCHANGED <<provider, contract, abiRead, pf, testTxt, own, readFrom,
                   message, entries, txIndex, weiCounter, verifyArgs,
                   verifyResult, errors, response, relayVars, hasher>>

\* The external process of line 90 ends.  It always writes to the same
\* path, --proof-path 1l_relu.pf under ./ezkl.  A process that never ends
\* is a request for which this step is never taken.
ProverExit(r) ==
    /\ prover[r] = "running"
    /\ \/ /\ pf' = [exists |-> TRUE, by |-> r, bytes |-> Proof(r)]
          /\ own' = [own EXCEPT ![r] = pf']
          /\ prover' = [prover EXCEPT ![r] = "exit0"]
       \/ /\ prover' = [prover EXCEPT ![r] = "exit0"]   \* no proof file
          /\ UNCHANGED <<pf, own>>
       \/ /\ prover' = [prover EXCEPT ![r] = "exit1"]
          /\ UNCHANGED <<pf, own>>
    /\ UNCHANGED <<provider, contract, abiRead, pc, query, testTxt, readFrom,
                   message, entries, txIndex, weiCounter, verifyArgs,
                   verifyResult, calls, errors, stages, response, relayVars,
                   hasher>>

\* A variant of ExecRejects that ignores the exit code of the prover.
ExecRejects_Never(r) == FALSE

\* util.promisify(exec): the promise rejects when the process ends with a
\* non-zero exit code.
ExecRejects(r) == prover[r] = "exit1"

\* Lines 139-142 of the handler: the only res.send of the program.  st, er
\* and cl are the request's stages, errors and calls at that point.
Respond(r, st, er, cl) ==
    /\ pc' = [pc EXCEPT ![r] = "responded"]
    /\ stages' = [stages EXCEPT ![r] = Append(st, "Done")]
    /\ errors' = [errors EXCEPT ![r] = er]
    /\ calls' = [calls EXCEPT ![r] = cl]
    /\ response' = [response EXCEPT ![r] = Append(@, Body(query[r]))]

\* A variant of StartVerify that does not await verifyProof(): the handler
\* answers while the counter read is still in flight (the handler of the
\* second version, lines 227-236, treats verifiedProof() that way).
StartVerify_NoAwait(r, st, er, cl) ==
    IF Unbound
    THEN Respond(r, Append(st, "Verifying"), er \cup {"verifyProof"}, cl)
    ELSE /\ pc' = [pc EXCEPT ![r] = "counter"]
         /\ stages' = [stages EXCEPT ![r] = Append(st, "Verifying")]
         /\ errors' = [errors EXCEPT ![r] = er]
         /\ calls' = [calls EXCEPT ![r] = Called(cl, "counter")]
         /\ response' = [response EXCEPT ![r] = Append(@, Body(query[r]))]

\* The handler after relaySetProof has returned: proof() returns, line 138
\* calls verifyProof(), which runs up to the await of counter (line 118).
\* An exception in it is caught at line 125, verifyProof returns and the
\* handler answers.
StartVerify(r, st, er, cl) ==
    IF Unbound
    THEN Respond(r, Append(st, "Verifying"), er \cup {"verifyProof"}, cl)
    ELSE /\ pc' = [pc EXCEPT ![r] = "counter"]
         /\ stages' = [stages EXCEPT ![r] = Append(st, "Verifying")]
         /\ errors' = [errors EXCEPT ![r] = er]
         /\ calls' = [calls EXCEPT ![r] = Called(cl, "counter")]
         /\ response' = response

\* An uncaught exception in proof(): the promise of the async handler
\* rejects.  Nothing catches it and no response is sent, whether the
\* runtime then only warns or ends the process.
Reject(r, op) ==
    /\ pc' = [pc EXCEPT ![r] = "rejected"]
    /\ stages' = [stages EXCEPT ![r] = Append(@, "Failed")]
    /\ errors' = [errors EXCEPT ![r] = @ \cup {op}]
    /\ UNCHANGED <<testTxt, readFrom, message, calls, response>>

\* The promise of exec settles: proof() lines 90-101 and relaySetProof up
\* to the await of line 66.
ExecResolve(r) ==
    /\ pc[r] = "exec"
    /\ prover[r] \in {"exit0", "exit1"}
    /\ IF ExecRejects(r) THEN Reject(r, "exec")
       ELSE IF ~pf.exists THEN Reject(r, "readFileSync")
       ELSE LET verifyContent == ReadToString(pf)
                st == stages[r] \o <<"Hashing", "Submitting">>
            IN /\ testTxt' = [exists |-> TRUE, by |-> 0,
                              bytes |-> utf8ToBytes(verifyContent)]
               /\ readFrom' = [readFrom EXCEPT ![r] = pf.by]
               /\ message' = [message EXCEPT ![r] = hashMessage(verifyContent)]
               /\ IF Unbound
                  THEN StartVerify(r, st, errors[r] \cup {"relaySetProof"},
                                   calls[r])
                  ELSE /\ pc' = [pc EXCEPT ![r] = "gas"]
                       /\ stages' = [stages EXCEPT ![r] = st]
                       /\ calls' = [calls EXCEPT ![r] =
                               Called(Called(@, "getGasPrice"), "estimateGas")]
                       /\ UNCHANGED <<errors, response>>
    /\ UNCHANGED <<provider, contract, abiRead, query, prover, pf, own,
                   entries, txIndex, weiCounter, verifyArgs, verifyResult,
                   relayVars, hasher>>

\* Promise.all of line 66 settles; on success lines 72-81 send the
\* transaction.
GasResolve(r) ==
    /\ pc[r] = "gas"
    /\ \/ /\ pc' = [pc EXCEPT ![r] = "send"]
          /\ calls' = [calls EXCEPT ![r] = Called(@, "sendTransaction")]
          /\ UNCHANGED <<stages, errors, response>>
       \/ StartVerify(r, stages[r], errors[r] \cup {"estimateGas"}, calls[r])
    /\ UNCHANGED <<provider, contract, abiRead, query, prover, pf, testTxt,
                   own, readFrom, message, entries, txIndex, weiCounter,
                   verifyArgs, verifyResult, relayVars, hasher>>

\* A variant of SendResolve that sends the transaction again when the
\* node rejected it.
SendResolve_Retry(r) ==
    /\ pc[r] = "send"
    /\ \/ /\ entries' = create_proof(entries, message[r])
          /\ txIndex' = [txIndex EXCEPT ![r] = Len(entries)]
          /\ StartVerify(r, stages[r], errors[r], calls[r])
       \/ /\ UNCHANGED <<entries, txIndex, pc, stages, response>>
          /\ errors' = [errors EXCEPT ![r] = @ \cup {"sendTransaction"}]
          /\ calls' = [calls EXCEPT ![r] = Called(@, "sendTransaction")]
    /\ UNCHANGED <<provider, contract, abiRead, query, prover, pf, testTxt,
                   own, readFrom, message, weiCounter, verifyArgs,
                   verifyResult, relayVars, hasher>>

\* sendTransaction settles: either the node rejected the transaction, or
\* it was mined (the contract ran create_proof) and the receipt arrived.
SendResolve(r) ==
    /\ pc[r] = "send"
    /\ \/ /\ entries' = create_proof(entries, message[r])
          /\ txIndex' = [txIndex EXCEPT ![r] = Len(entries)]
          /\ StartVerify(r, stages[r], errors[r], calls[r])
       \/ /\ UNCHANGED <<entries, txIndex>>
          /\ StartVerify(r, stages[r], errors[r] \cup {"sendTransaction"},
                         calls[r])
    /\ UNCHANGED <<provider, contract, abiRead, query, prover, pf, testTxt,
                   own, readFrom, message, weiCounter, verifyArgs,
                   verifyResult, relayVars, hasher>>

\* A variant of VerifyIndex that passes the counter itself.
VerifyIndex_Counter(w) == w

\* The index of line 123: weiCounter - 1.
VerifyIndex(w) == w - 1

\* counter.call() settles (line 118); on success lines 121-123 read the
\* proof file again, hash it and call verify_proof(weiCounter - 1, message).
CounterResolve(r) ==
    /\ pc[r] = "counter"
    /\ \/ /\ weiCounter' = [weiCounter EXCEPT ![r] = counter(entries)]
          /\ IF ~pf.exists
             THEN /\ Respond(r, stages[r], errors[r] \cup {"readFileSync"},
                             calls[r])
                  /\ UNCHANGED verifyArgs
             ELSE /\ verifyArgs' = [verifyArgs EXCEPT ![r] =
                        [called |-> TRUE,
                         index |-> VerifyIndex(counter(entries)),
                         message |-> hashMessage(ReadToString(pf)),
                         readFrom |-> pf.by]]
                  /\ pc' = [pc EXCEPT ![r] = "verify"]
                  /\ calls' = [calls EXCEPT ![r] = Called(@, "verify_proof")]
                  /\ UNCHANGED <<stages, errors, response>>
       \/ /\ Respond(r, stages[r], errors[r] \cup {"counter"}, calls[r])
          /\ UNCHANGED <<weiCounter, verifyArgs>>
    /\ UNCHANGED <<provider, contract, abiRead, query, prover, pf, testTxt,
                   own, readFrom, message, entries, txIndex, verifyResult,
                   relayVars, hasher>>

\* A variant of VerifyResolve that looks at the boolean: the handler
\* answers only when verify_proof returned true.
VerifyResolve_OnlyTrue(r) ==
    /\ pc[r] = "verify"
    /\ \/ /\ verifyArgs[r].index >= 0
          /\ LET ok == verify_proof(entries, verifyArgs[r].index,
                                    verifyArgs[r].message)
             IN /\ verifyResult' = [verifyResult EXCEPT ![r] =
                                       IF ok THEN "true" ELSE "false"]
                /\ IF ok
                   THEN Respond(r, stages[r], errors[r], calls[r])
                   ELSE /\ pc' = [pc EXCEPT ![r] = "rejected"]
                        /\ stages' = [stages EXCEPT ![r] = Append(@, "Failed")]
                        /\ UNCHANGED <<errors, calls, response>>
       \/ /\ UNCHANGED verifyResult
          /\ Respond(r, stages[r], errors[r] \cup {"verify_proof"}, calls[r])
    /\ UNCHANGED <<provider, contract, abiRead, query, prover, pf, testTxt,
                   own, readFrom, message, entries, txIndex, weiCounter,
                   verifyArgs, relayVars, hasher>>

\* A variant of VerifyResolve that sends verify_proof as a transaction
\* (.send() for .call()): the contract state changes.
VerifyResolve_Send(r) ==
    /\ pc[r] = "verify"
    /\ \/ /\ verifyArgs[r].index >= 0
          /\ verifyResult' = [verifyResult EXCEPT ![r] =
                IF verify_proof(entries, verifyArgs[r].index,
                                verifyArgs[r].message)
                THEN "true" ELSE "false"]
          /\ entries' = Append(entries, verifyArgs[r].message)
          /\ Respond(r, stages[r], errors[r], calls[r])
       \/ /\ UNCHANGED <<verifyResult, entries>>
          /\ Respond(r, stages[r], errors[r] \cup {"verify_proof"}, calls[r])
    /\ UNCHANGED <<provider, contract, abiRead, query, prover, pf, testTxt,
                   own, readFrom, message, txIndex, weiCounter, verifyArgs,
                   relayVars, hasher>>

\* verify_proof(...).call() settles (line 123); verifyProof returns and the
\* handler answers (lines 139-142).  With weiCounter = 0 the index is -1,
\* which is no uint: that call can only fail.
VerifyResolve(r) ==
    /\ pc[r] = "verify"
    /\ \/ /\ verifyArgs[r].index >= 0
          /\ verifyResult' = [verifyResult EXCEPT ![r] =
                IF verify_proof(entries, verifyArgs[r].index,
                                verifyArgs[r].message)
                THEN "true" ELSE "false"]
          /\ Respond(r, stages[r], errors[r], calls[r])
       \/ /\ UNCHANGED verifyResult
          /\ Respond(r, stages[r], errors[r] \cup {"verify_proof"}, calls[r])
    /\ UNCHANGED <<provider, contract, abiRead, query, prover, pf, testTxt,
                   own, readFrom, message, entries, txIndex, weiCounter,
                   verifyArgs, relayVars, hasher>>

Step(r) ==
    \/ Receive(r)
    \/ ProverExit(r)
    \/ ExecResolve(r)
    \/ GasResolve(r)
    \/ SendResolve(r)
    \/ CounterResolve(r)
    \/ VerifyResolve(r)

Next ==
    \/ ReadFileCallback
    \/ \E r \in Requests : Step(r)

Spec == Init /\ [][Next]_vars

\* ------------------------------------------------------ one request alone
\* The commitments the contract can hold when the server starts: it lives
\* at a fixed address (line 17) and keeps what earlier runs submitted.
Commitments == { hashMessage(Utf8Decode(a)) : a \in Artifacts }

RECURSIVE SeqsUpTo(_, _)
SeqsUpTo(S, n) ==
    IF n = 0 THEN { <<>> }
    ELSE LET shorter == SeqsUpTo(S, n - 1)
         IN shorter \cup { Append(q, x) : q \in shorter, x \in S }

\* The server started against a contract with up to MaxPreloaded entries.
SingleInit ==
    \E es \in SeqsUpTo(Commitments, MaxPreloaded) : Started(es, NoHasher)

\* Only request 1 is ever sent: no other request is in flight.
SingleNext ==
    \/ ReadFileCallback
    \/ Step(1)

SingleSpec == SingleInit /\ [][SingleNext]_vars

\* ------------------------------------------------- relaySetHello (194-218)
\* Second version, lines 165-184: the callback of fs.readFile calls
\* loadContract, which parses the ABI and waits for web3.eth.net.getId().
RelayReadFile ==
    /\ relayContract = "null"
    /\ \E outcome \in {"getId", "failed"} : relayContract' = outcome
    /\ UNCHANGED <<relayPc, relayNonce, txCount, broadcast, pipeVars, hasher>>

\* getId settles; on success line 169 assigns contract.
RelayGetId ==
    /\ relayContract = "getId"
    /\ \E outcome \in {"contract", "failed"} : relayContract' = outcome
    /\ UNCHANGED <<relayPc, relayNonce, txCount, broadcast, pipeVars, hasher>>

\* relaySetHello(hello, helloSetter, signature) up to the await of
\* getTransactionCount (line 195).
RelayCall(h) ==
    /\ relayPc[h] = "idle"
    /\ relayPc' = [relayPc EXCEPT ![h] = "getTransactionCount"]
    /\ UNCHANGED <<relayContract, relayNonce, txCount, broadcast, pipeVars,
                   hasher>>

\* web3.eth.getTransactionCount(address, 'latest'): the number of mined
\* transactions of the account; transactions still pending do not count.
getTransactionCount == txCount

\* getTransactionCount settles; lines 196-209 build the transaction with
\* that nonce and ask for its signature.  contract.methods of line 202 is
\* a TypeError while contract is still null.
NonceResolve(h) ==
    /\ relayPc[h] = "getTransactionCount"
    /\ \/ /\ relayContract = "contract"
          /\ relayNonce' = [relayNonce EXCEPT ![h] = getTransactionCount]
          /\ relayPc' = [relayPc EXCEPT ![h] = "signTransaction"]
       \/ /\ relayContract # "contract"
          /\ relayNonce' = [relayNonce EXCEPT ![h] = getTransactionCount]
          /\ relayPc' = [relayPc EXCEPT ![h] = "rejected"]
       \/ /\ relayPc' = [relayPc EXCEPT ![h] = "rejected"]
          /\ UNCHANGED relayNonce
    /\ UNCHANGED <<relayContract, txCount, broadcast, pipeVars, hasher>>

\* signTransaction settles; line 211 hands the raw transaction to the node
\* and relaySetHello returns without waiting for the callback.
SignResolve(h) ==
    /\ relayPc[h] = "signTransaction"
    /\ broadcast' = Append(broadcast, [by |-> h, nonce |-> relayNonce[h]])
    /\ relayPc' = [relayPc EXCEPT ![h] = "sent"]
    /\ UNCHANGED <<relayContract, relayNonce, txCount, pipeVars, hasher>>

\* The node: a transaction is mined when its nonce is the account's next
\* one; one whose nonce has been used already is refused.  The callback of
\* line 211 logs either the hash or the error.
SendCallback(h) ==
    /\ relayPc[h] = "sent"
    /\ \/ /\ relayNonce[h] = txCount
          /\ txCount' = txCount + 1
          /\ relayPc' = [relayPc EXCEPT ![h] = "hash"]
       \/ /\ relayNonce[h] < txCount
          /\ txCount' = txCount
          /\ relayPc' = [relayPc EXCEPT ![h] = "error"]
    /\ UNCHANGED <<relayContract, relayNonce, broadcast, pipeVars, hasher>>

RelayStep(h) ==
    \/ RelayCall(h)
    \/ NonceResolve(h)
    \/ SignResolve(h)
    \/ SendCallback(h)

RelayNext ==
    \/ RelayReadFile
    \/ RelayGetId
    \/ \E h \in Relays : RelayStep(h)

RelaySpec == Init /\ [][RelayNext]_vars

\* ------------------------------------------------ from proof file to hash
\* Lines 93-97 and 121-122 on their own, for every proof file of up to
\* MaxArtifactLen bytes.
HashInit ==
    \E files \in [Slots -> SeqsUpTo(Bytes, MaxArtifactLen)] :
        Started(<<>>, [x \in Slots |-> [pc |-> "file", bytes |-> files[x],
                                        text |-> <<>>,
                                        message |-> NoCommitment]])

\* verifyContent = fs.readFileSync('./ezkl/1l_relu.pf').toString()
HashRead(x) ==
    /\ hasher[x].pc = "file"
    /\ hasher' = [hasher EXCEPT ![x].pc = "text",
                                ![x].text = ReadToString(hasher[x])]
    /\ UNCHANGED <<pipeVars, relayVars>>

\* message = hashMessage(verifyContent)
HashMessage(x) ==
    /\ hasher[x].pc = "text"
    /\ hasher' = [hasher EXCEPT ![x].pc = "hashed",
                                ![x].message = hashMessage(hasher[x].text)]
    /\ UNCHANGED <<pipeVars, relayVars>>

HashNext == \E x \in Slots : HashRead(x) \/ HashMessage(x)

HashSpec == HashInit /\ [][HashNext]_vars

\* Fairness of the event loop and of the node: a settled promise has its
\* continuation run, and every RPC is eventually answered or refused.
\* Nothing makes a request arrive, and nothing makes the external prover
\* process end.
FairSpec ==
    /\ Spec
    /\ WF_vars(ReadFileCallback)
    /\ \A r \in Requests :
          /\ WF_vars(ExecResolve(r))
          /\ WF_vars(GasResolve(r))
          /\ WF_vars(SendResolve(r))
          /\ WF_vars(CounterResolve(r))
          /\ WF_vars(VerifyResolve(r))

\* ============================================================== properties
Pipeline == <<"Proving", "Hashing", "Submitting", "Verifying", "Done">>

IsPrefix(s, t) ==
    /\ Len(s) <= Len(t)
    /\ \A i \in 1..Len(s) : s[i] = t[i]

Entered(r, stage) == \E i \in 1..Len(stages[r]) : stages[r][i] = stage

Current(r) == IF stages[r] = <<>> THEN "Idle" ELSE stages[r][Len(stages[r])]

Ended(r) == pc[r] \in {"responded", "rejected"}

\* The rejections of the node during relaySetProof, and the failures of
\* the collaborators in general (prover, file system, node).
SubmitErrors == {"estimateGas", "sendTransaction"}
CollaboratorErrors ==
    {"exec", "readFileSync", "estimateGas", "sendTransaction", "counter",
     "verify_proof"}

\* C1: the stages of a request are entered in the order Proving, Hashing,
\* Submitting, Verifying, Done, none skipped, possibly cut short by Failed;
\* an operation is in flight only during its own stage; and a response
\* exists only once the verification stage has ended.
C1_StageOrder ==
    \A r \in Requests :
        /\ \/ IsPrefix(stages[r], Pipeline)
           \/ /\ Current(r) = "Failed"
              /\ IsPrefix(SubSeq(stages[r], 1, Len(stages[r]) - 1), Pipeline)
              /\ ~Entered(r, "Done")
        /\ pc[r] = "idle" => Current(r) = "Idle"
        /\ pc[r] = "exec" => Current(r) = "Proving"
        /\ pc[r] \in {"gas", "send"} => Current(r) = "Submitting"
        /\ pc[r] \in {"counter", "verify"} => Current(r) = "Verifying"
        /\ response[r] # <<>> =>
              /\ pc[r] = "responded"
              /\ stages[r] = Pipeline

\* C1 witness: a request went through every stage, with its transaction
\* recorded and its verify_proof call answered, and was responded to.
C1_Witness ==
    \E r \in Requests :
        /\ stages[r] = Pipeline
        /\ txIndex[r] >= 0
        /\ verifyResult[r] # "none"
        /\ response[r] # <<>>

\* C2: a request whose prover process ended with a non-zero exit code has
\* invoked no chain operation and has no create_proof recorded.
C2_FailureContainment ==
    \A r \in Requests :
        prover[r] = "exit1" =>
            /\ \A o \in ChainOps : calls[r][o] = 0
            /\ txIndex[r] = -1

\* C2 witness: a prover failure has been delivered to the handler while a
\* proof file was on disk and provider and contract were bound, so that
\* nothing but the rejection kept the request from the chain.
C2_Witness ==
    \E r \in Requests :
        /\ prover[r] = "exit1"
        /\ pc[r] = "rejected"
        /\ pf.exists
        /\ ~Unbound

\* C3 (as claimed): a request whose create_proof submission failed (gas
\* estimation or sendTransaction rejected) never enters Verifying and never
\* reaches Done.
C3_SubmitFailureIsTerminal ==
    \A r \in Requests :
        errors[r] \cap SubmitErrors # {} =>
            /\ ~Entered(r, "Verifying")
            /\ ~Entered(r, "Done")

\* C4 (as claimed): for a request that completed Done with its create_proof
\* recorded and no operation failed, the commitment passed to verify_proof
\* is the one it computed and submitted, and the index is the counter it
\* read minus 1.
C4_RoundTrip ==
    \A r \in Requests :
        (pc[r] = "responded" /\ txIndex[r] >= 0 /\ errors[r] = {}) =>
            /\ verifyArgs[r].called
            /\ verifyArgs[r].message = message[r]
            /\ verifyArgs[r].index = weiCounter[r] - 1

\* C5 (as claimed): for a request whose create_proof was recorded, the
\* contract entry at the index it passes to verify_proof is the commitment
\* this request submitted.
C5_EntryAtIndex ==
    \A r \in Requests :
        (txIndex[r] >= 0 /\ verifyArgs[r].called) =>
            /\ verifyArgs[r].index \in 0..(Len(entries) - 1)
            /\ entries[verifyArgs[r].index + 1] = message[r]

\* C6 (as claimed): no request reads a proof file written by another
\* request's prover, none has its file overwritten before reading it, and
\* each completes with the commitment of its own artifact.
C6_Isolation ==
    \A r \in Requests :
        /\ readFrom[r] \in {0, r}
        /\ verifyArgs[r].called => verifyArgs[r].readFrom = r
        /\ (own[r].exists /\ pc[r] = "exec") => pf = own[r]
        /\ (pc[r] = "responded" /\ message[r] # NoCommitment) =>
              /\ own[r].exists
              /\ message[r] = hashMessage(ReadToString(own[r]))

\* C7 (as claimed): no two transactions handed to the node carry the same
\* nonce, and none is refused.
C7_DistinctNonces ==
    /\ \A i, j \in 1..Len(broadcast) :
          i # j => broadcast[i].nonce # broadcast[j].nonce
    /\ \A h \in Relays : relayPc[h] # "error"

\* C8 (as claimed): a request whose handler has come to its end, whatever
\* stage failed, has received exactly one response.
C8_OneResponse ==
    \A r \in Requests : Ended(r) => Len(response[r]) = 1

\* C9 (as claimed): a request in which the prover, the artifact read, the
\* submission, the counter read or the verify_proof call failed is never
\* given the success body {"message": ...}.
C9_NoSuccessAfterFailure ==
    \A r \in Requests :
        errors[r] \cap CollaboratorErrors # {} =>
            \A i \in 1..Len(response[r]) : response[r][i] # Body(query[r])

\* C10 (as claimed): every request whose prover has been started
\* eventually reaches Done or Failed.
C10_Terminates ==
    \A r \in Requests : (pc[r] = "exec") ~> Ended(r)

\* C11: a request that runs alone and without any failure calls
\* verify_proof with the index n the counter had before its submission and
\* with the commitment hashMessage computes from its artifact, and the
\* contract entry at index n is that commitment (so the call, once
\* answered, returned true).
C11_SingleRoundTrip ==
    (errors[1] = {} /\ verifyArgs[1].called) =>
        /\ txIndex[1] = weiCounter[1] - 1
        /\ verifyArgs[1].index = txIndex[1]
        /\ verifyArgs[1].message = hashMessage(ReadToString(own[1]))
        /\ entries[txIndex[1] + 1] = verifyArgs[1].message
        /\ verifyResult[1] # "false"

\* C11 witness: the lone request went through without failure against a
\* contract that already held an entry, and verify_proof answered.
C11_Witness ==
    /\ pc[1] = "responded"
    /\ errors[1] = {}
    /\ txIndex[1] >= 1
    /\ verifyResult[1] = "true"

Answered(r) == verifyResult[r] \in {"true", "false"}

\* C12: a request whose verify_proof call returned, true or false, is
\* Done and has been sent the one response of the handler, the same for
\* either boolean.
C12_DoneWhateverTheBoolean ==
    \A r \in Requests :
        Answered(r) =>
            /\ pc[r] = "responded"
            /\ Current(r) = "Done"
            /\ response[r] = <<Body(query[r])>>

\* C12 witness: one request got true, another got false, and both are Done
\* with the same response.
C12_Witness ==
    \E r1, r2 \in Requests :
        /\ verifyResult[r1] = "true"
        /\ verifyResult[r2] = "false"
        /\ pc[r1] = "responded"
        /\ pc[r2] = "responded"
        /\ response[r1] = response[r2]

\* C13 (as claimed): the success payload carries the value verify_proof
\* returned: two requests whose calls returned different booleans are sent
\* different payloads.
C13_PayloadCarriesOutcome ==
    \A r1, r2 \in Requests :
        (/\ Answered(r1)
         /\ Answered(r2)
         /\ verifyResult[r1] # verifyResult[r2]
         /\ response[r1] # <<>>
         /\ response[r2] # <<>>) => response[r1] # response[r2]

\* C14 (as claimed): once the read of the interface description has failed
\* (the callback ran and left provider unassigned), no request is taken up.
C14_LoadFailureIsFatal ==
    [][(abiRead /\ provider = "") =>
          \A r \in Requests : pc[r] = "idle" => pc'[r] = "idle"]_vars

\* C16 (as claimed): a request is taken up only after the interface
\* description has been read, and no stage has run into the placeholder
\* value of provider or contract.
C16_BoundBeforeHandling ==
    \A r \in Requests :
        /\ pc[r] # "idle" => abiRead
        /\ errors[r] \cap {"relaySetProof", "verifyProof"} = {}

\* C17: whatever fails, the prover is started at most once and
\* sendTransaction is called at most once per request, and at most one
\* contract entry comes from it.
C17_NoRetry ==
    \A r \in Requests :
        /\ calls[r]["exec"] <= 1
        /\ calls[r]["sendTransaction"] <= 1
        /\ calls[r]["estimateGas"] <= 1

\* C17 witness: a request whose sendTransaction was rejected has come to
\* its end with that single attempt.
C17_Witness ==
    \E r \in Requests :
        /\ "sendTransaction" \in errors[r]
        /\ calls[r]["sendTransaction"] = 1
        /\ calls[r]["exec"] = 1
        /\ pc[r] = "responded"

Recorded == { r \in Requests : txIndex[r] >= 0 }

\* C18: the contract holds exactly one entry per recorded create_proof, at
\* the index it was recorded at; the counter reads and verify_proof calls,
\* however many, add nothing.
C18_OnlyCreateProofWrites ==
    /\ counter(entries) = Cardinality(Recorded)
    /\ \A r \in Recorded :
          /\ txIndex[r] < Len(entries)
          /\ entries[txIndex[r] + 1] = message[r]

\* C18 witness: every request has had its verify_proof call answered, one
\* of them without having recorded anything.
C18_Witness ==
    /\ \A r \in Requests : Answered(r)
    /\ Recorded # {}
    /\ Recorded # Requests

\* C19 (as claimed): the hasher is given the raw bytes of the proof file:
\* two proof files with different bytes never give SHA256 the same input.
C19_RawBytesHashed ==
    \A x, y \in Slots :
        (/\ hasher[x].pc = "hashed"
         /\ hasher[y].pc = "hashed"
         /\ hasher[x].bytes # hasher[y].bytes)
            => hasher[x].message.hash.input # hasher[y].message.hash.input

====
